---- MODULE Spec2Model ----
(***************************************************************************)
(* Layered configuration resolution of payjoin-cli: Config::new and the    *)
(* helpers of payjoin-cli/src/app/config.rs.                               *)
(*                                                                         *)
(* A run is one call of Config::new under one build (one selection of the  *)
(* cargo features v1 and v2).  The builder accumulates compiled-in         *)
(* defaults and CLI overrides, handle_subcommands applies the overrides of *)
(* the invoked subcommand, the file source config.toml is added, build()   *)
(* flattens the layers and try_deserialize coerces the flat view into the  *)
(* typed Config.                                                           *)
(*                                                                         *)
(* Strings are sequences of characters (one-character strings); an opaque  *)
(* text such as a URL or a path is a one-element sequence holding the text *)
(* as a single token, which is not a digit and so never parses as a number.*)
(* An Option is a sequence of length at most one: <<>> is None, <<x>> is   *)
(* Some(x).                                                                *)
(***************************************************************************)
EXTENDS Integers, Sequences, FiniteSets, TLC

VARIABLES
    build,          \* the cargo features of the build: [v1, v2]
    pc,             \* position inside Config::new
    fee_arg,        \* the subcommand's max_fee_rate as typed: None, or Some of
                    \* [parsed, rate]: a text that parsed to the FeeRate rate,
                    \* or (parsed = FALSE) a text that is no fee rate
    matches,        \* top-level ArgMatches read so far: flag -> typed value
    subcommand,     \* matches.subcommand(): <<>> or <<name>>
    sub_matches,    \* the subcommand's own ArgMatches: flag -> typed value
    builder,        \* the ConfigBuilder: [defaults, overrides, sources]
    file,           \* what config.toml holds when build() reads it
    flat,           \* the config::Config built by build(): key -> Value
    reads,          \* std::fs::read calls made by the key-bundle deserializer
    decodes,        \* OhttpKeys::decode calls made
    keys_field,     \* outcome of deserialize_ohttp_keys_from_path, "" if not run
    app_config,     \* the resolved Config: field -> typed value
    result          \* outcome of Config::new: [kind, cause, key]

vars == <<build, pc, fee_arg, matches, subcommand, sub_matches, builder, file, flat,
          reads, decodes, keys_field, app_config, result>>

-----------------------------------------------------------------------------
(* Bounds of the model *)

\* at most this many CLI flags are supplied in one invocation
MaxFlags == 2
\* at most this many keys are set in config.toml
MaxFileKeys == 1

-----------------------------------------------------------------------------
(* Values *)

None == <<>>
Some(x) == <<x>>

\* config::Value, by ValueKind
Nil == [kind |-> "Nil", s |-> <<>>, n |-> 0]
Str(s) == [kind |-> "String", s |-> s, n |-> 0]
U64(n) == [kind |-> "U64", s |-> <<>>, n |-> n]

\* typed values: CLI arguments as clap stores them, fields of Config
Typed(ty, s, n) == [ty |-> ty, s |-> s, n |-> n]
TNone == Typed("None", <<>>, 0)

Digits == {"0", "1", "2", "3", "4", "5", "6", "7", "8", "9"}

DigitVal(c) ==
    CASE c = "0" -> 0 [] c = "1" -> 1 [] c = "2" -> 2 [] c = "3" -> 3
      [] c = "4" -> 4 [] c = "5" -> 5 [] c = "6" -> 6 [] c = "7" -> 7
      [] c = "8" -> 8 [] c = "9" -> 9

DigitChar(d) ==
    CASE d = 0 -> "0" [] d = 1 -> "1" [] d = 2 -> "2" [] d = 3 -> "3"
      [] d = 4 -> "4" [] d = 5 -> "5" [] d = 6 -> "6" [] d = 7 -> "7"
      [] d = 8 -> "8" [] d = 9 -> "9"

U16_MAX == 65535
\* the largest number the model writes down; u64::MAX lies far beyond it, so
\* a u64 parse in the model overflows only past this cap
IntCap == 1000000

\* the digit loop of <uN as FromStr>::from_str: checked multiply and add;
\* -1 stands for Err (InvalidDigit or PosOverflow)
RECURSIVE ParseDigits(_, _, _)
ParseDigits(s, acc, max) ==
    IF s = <<>> THEN acc
    ELSE IF Head(s) \notin Digits THEN -1
    ELSE LET next == acc * 10 + DigitVal(Head(s))
         IN IF next > max THEN -1 ELSE ParseDigits(Tail(s), next, max)

\* str::parse::<uN>(): Err on the empty string and on a lone sign; one
\* leading "+" is accepted, "-" is an invalid digit for an unsigned type
ParseUnsigned(s, max) ==
    IF s = <<>> THEN -1
    ELSE IF Len(s) = 1 /\ Head(s) \in {"+", "-"} THEN -1
    ELSE IF Head(s) = "+" THEN ParseDigits(Tail(s), 0, max)
    ELSE ParseDigits(s, 0, max)

\* a port parsed as a wider integer: no check against u16::MAX
parse_u16_Wide(s) == ParseUnsigned(s, IntCap)

parse_u16(s) == ParseUnsigned(s, U16_MAX)

\* u64's Display: the decimal digits, no sign, no leading zero
RECURSIVE U64ToString(_)
U64ToString(n) ==
    IF n < 10 THEN <<DigitChar(n)>>
    ELSE Append(U64ToString(n \div 10), DigitChar(n % 10))

-----------------------------------------------------------------------------
(* Keys, flags and the values the inputs are drawn from *)

CommonKeys == {"db_path", "max_fee_rate", "bitcoind.rpchost", "bitcoind.cookie",
               "bitcoind.rpcuser", "bitcoind.rpcpassword"}
V1Keys == {"v1.port", "v1.pj_endpoint"}
V2Keys == {"v2.ohttp_keys", "v2.ohttp_relay", "v2.pj_directory"}
Keys == CommonKeys \cup V1Keys \cup V2Keys

\* the fields of struct Config under the features b
Schema(b) ==
    CommonKeys \cup (IF b.v1 THEN V1Keys ELSE {}) \cup (IF b.v2 THEN V2Keys ELSE {})

\* at least one protocol feature is selected; cargo features are additive,
\* so v1 and v2 can be selected together
Builds == {[v1 |-> TRUE, v2 |-> FALSE], [v1 |-> FALSE, v2 |-> TRUE],
           [v1 |-> TRUE, v2 |-> TRUE]}

EmptyMap == [k \in {} |-> Nil]

CliUrl == Typed("Url", <<"https://cli.example/">>, 0)
CliString == Typed("String", <<"cli-value">>, 0)

\* the files the key-bundle path may name; a path outside Disk does not exist
Disk == (<<"garbage.keys">> :> "garbage") @@ (<<"valid.keys">> :> "bundle")
KeyPaths == {<<"missing.keys">>, <<"garbage.keys">>, <<"valid.keys">>}

\* --port as the user types it
PortStrings == {<<"5", "0", "0", "0">>, <<"6", "5", "5", "3", "5">>,
                <<"6", "5", "5", "3", "6">>, <<"+", "8", "0">>, <<"-", "1">>,
                <<"a", "b", "c">>, <<>>}

FeeRates == {7, 250}

BitcoindFlags == {"rpchost", "cookie_file", "rpcuser", "rpcpassword"}
CommonFlags == {"db_path"}
V2Flags == {"ohttp_relay"}

\* the arguments handle_subcommands and handle_receive_command read under b
SubFlags(b) ==
    {"max_fee_rate"}
    \cup (IF b.v2 THEN {"pj_directory", "ohttp_keys"} ELSE {"port", "pj_endpoint"})

FlagValues(f) ==
    CASE f \in {"rpchost", "pj_endpoint", "pj_directory", "ohttp_relay"} -> {CliUrl}
      [] f \in {"cookie_file", "rpcuser", "rpcpassword", "db_path"} -> {CliString}
      [] f = "ohttp_keys" -> {Typed("String", p, 0) : p \in KeyPaths}
      [] f = "port" -> {Typed("String", p, 0) : p \in PortStrings}
      [] f = "max_fee_rate" -> {Typed("FeeRate", <<>>, n) : n \in FeeRates}

AllFlags == BitcoindFlags \cup CommonFlags \cup V2Flags
            \cup {"max_fee_rate", "pj_directory", "ohttp_keys", "port", "pj_endpoint"}

ArgUniverse == UNION {FlagValues(f) : f \in AllFlags}

\* every ArgMatches that supplies at most budget of the flags
ArgChoices(flags, budget) ==
    UNION {{m \in [S -> ArgUniverse] : \A f \in S : m[f] \in FlagValues(f)} :
           S \in {T \in SUBSET flags : Cardinality(T) <= budget}}

\* max_fee_rate as the user can type it
FeeArgs ==
    {None, Some([parsed |-> FALSE, rate |-> 0])}
    \cup {Some([parsed |-> TRUE, rate |-> n]) : n \in FeeRates}

\* the flags supplied so far; a typed max_fee_rate counts from the start
FlagsSupplied ==
    Cardinality(DOMAIN matches) + Cardinality(DOMAIN sub_matches \ {"max_fee_rate"})
    + (IF fee_arg = None THEN 0 ELSE 1)

\* what config.toml can hold for a key: well-typed values and, for some
\* keys, a value the field's type rejects
FileValues(k) ==
    CASE k \in {"bitcoind.rpchost", "v1.pj_endpoint", "v2.ohttp_relay",
                "v2.pj_directory"} ->
            {Str(<<"https://file.example">>), Str(<<"not a url">>)}
      [] k \in {"bitcoind.cookie", "bitcoind.rpcuser", "bitcoind.rpcpassword",
                "db_path"} -> {Str(<<"file-value">>)}
      [] k = "max_fee_rate" -> {U64(500), Str(<<"abc">>)}
      [] k = "v1.port" -> {U64(4000), Str(<<"abc">>)}
      [] k = "v2.ohttp_keys" -> {Str(p) : p \in KeyPaths}

FileUniverse == UNION {FileValues(k) : k \in Keys}

FileTables(b) ==
    UNION {{m \in [S -> FileUniverse] : \A k \in S : m[k] \in FileValues(k)} :
           S \in {T \in SUBSET Schema(b) : Cardinality(T) <= MaxFileKeys}}

-----------------------------------------------------------------------------
(* The builder: config::builder::ConfigBuilder<DefaultState> *)

get_one(m, id) == IF id \in DOMAIN m THEN Some(m[id]) ELSE None

\* Option::map(|s| s.as_str()): the argument's text as a config Value
as_str(opt) == IF opt = None THEN None ELSE Some(Str(opt[1].s))

\* config::Config::builder()
NewBuilder == [defaults |-> EmptyMap, overrides |-> EmptyMap, sources |-> <<>>]

set_default(b, key, value) == [b EXCEPT !.defaults = (key :> value) @@ @]

\* a set_override_option that records an absent value as an override of Nil
set_override_option_Clobber(b, key, opt) ==
    [b EXCEPT !.overrides = (key :> (IF opt = None THEN Nil ELSE opt[1])) @@ @]

\* set_override_option: Some(v) records the override, None leaves the
\* builder as it is
set_override_option(b, key, opt) ==
    IF opt = None THEN b ELSE [b EXCEPT !.overrides = (key :> opt[1]) @@ @]

add_source(b, src) == [b EXCEPT !.sources = Append(@, src)]

add_bitcoind_defaults(b, m) ==
    LET b1 == set_default(b, "bitcoind.rpchost", Str(<<"http://localhost:18443">>))
        b2 == set_override_option(b1, "bitcoind.rpchost", as_str(get_one(m, "rpchost")))
        b3 == set_default(b2, "bitcoind.cookie", Nil)
        b4 == set_override_option(b3, "bitcoind.cookie", as_str(get_one(m, "cookie_file")))
        b5 == set_default(b4, "bitcoind.rpcuser", Str(<<"bitcoin">>))
        b6 == set_override_option(b5, "bitcoind.rpcuser", as_str(get_one(m, "rpcuser")))
        b7 == set_default(b6, "bitcoind.rpcpassword", Str(<<>>))
    IN set_override_option(b7, "bitcoind.rpcpassword", as_str(get_one(m, "rpcpassword")))

\* db::DB_PATH is defined outside this file; any path text serves
DB_PATH == <<"payjoin.sled">>

add_common_defaults(b, m) ==
    set_override_option(set_default(b, "db_path", Str(DB_PATH)),
                        "db_path", as_str(get_one(m, "db_path")))

DefaultPort == 3000

\* v1 defaults without the port
add_v1_defaults_NoPort(b) ==
    set_default(b, "v1.pj_endpoint", Str(<<"https://localhost:3000">>))

add_v1_defaults(b) ==
    set_default(set_default(b, "v1.port", U64(DefaultPort)),
                "v1.pj_endpoint", Str(<<"https://localhost:3000">>))

\* v2 defaults without the relay override
add_v2_defaults_NoRelay(b, m) ==
    set_default(set_default(b, "v2.pj_directory", Str(<<"https://payjo.in">>)),
                "v2.ohttp_keys", Nil)

add_v2_defaults(b, m) ==
    LET b1 == set_override_option(b, "v2.ohttp_relay", as_str(get_one(m, "ohttp_relay")))
        b2 == set_default(b1, "v2.pj_directory", Str(<<"https://payjo.in">>))
    IN set_default(b2, "v2.ohttp_keys", Nil)

\* Result<Builder, ConfigError>, or the panic of unreachable!()
OkB(b) == [kind |-> "Ok", builder |-> b, cause |-> ""]
ErrB(b, cause) == [kind |-> "Err", builder |-> b, cause |-> cause]
PanicB(b) == [kind |-> "Panic", builder |-> b, cause |-> "unreachable"]

\* Option<String> -> Option<Result<u16, _>> -> Result<Option<u16>, _>:
\* the Err of transpose(), when the text is supplied and does not parse
PortFails(sm) ==
    LET arg == get_one(sm, "port")
    IN arg # None /\ parse_u16(arg[1].s) < 0

\* the Ok of transpose(): the port as the Value set_override_option takes
PortOption(sm) ==
    LET arg == get_one(sm, "port")
    IN IF arg = None THEN None ELSE Some(U64(parse_u16(arg[1].s)))

handle_receive_command(b, sm, bld) ==
    IF ~bld.v2
    THEN IF PortFails(sm)
         THEN ErrB(b, "port")
         ELSE OkB(set_override_option(
                      set_override_option(b, "v1.port", PortOption(sm)),
                      "v1.pj_endpoint", as_str(get_one(sm, "pj_endpoint"))))
    ELSE OkB(set_override_option(
                 set_override_option(b, "v2.pj_directory",
                                     as_str(get_one(sm, "pj_directory"))),
                 "v2.ohttp_keys", as_str(get_one(sm, "ohttp_keys"))))

\* a fee rate written in sat/vB (rounded up) instead of sat/kwu
FeeRateToString_PerVb(opt) ==
    IF opt = None THEN None ELSE Some(Str(U64ToString((opt[1].n + 249) \div 250)))

\* Option<&FeeRate>::map(|f| f.to_string()): FeeRate's Display writes the
\* rate in sat/kwu as a decimal number
FeeRateToString(opt) ==
    IF opt = None THEN None ELSE Some(Str(U64ToString(opt[1].n)))

\* a handle_subcommands whose `send` arm applies the overrides of `receive`
handle_subcommands_SendAsReceive(b, sub, sm, bld) ==
    IF sub \in {Some("send"), Some("receive")}
    THEN LET r == handle_receive_command(b, sm, bld)
         IN IF r.kind # "Ok" THEN r
            ELSE OkB(set_override_option(r.builder, "max_fee_rate",
                                         FeeRateToString(get_one(sm, "max_fee_rate"))))
    ELSE IF bld.v2 /\ sub = Some("resume") THEN OkB(b)
    ELSE PanicB(b)

handle_subcommands(b, sub, sm, bld) ==
    IF sub = Some("send") THEN OkB(b)
    ELSE IF sub = Some("receive")
    THEN LET r == handle_receive_command(b, sm, bld)
         IN IF r.kind # "Ok" THEN r
            ELSE OkB(set_override_option(r.builder, "max_fee_rate",
                                         FeeRateToString(get_one(sm, "max_fee_rate"))))
    ELSE IF bld.v2 /\ sub = Some("resume") THEN OkB(b)
    ELSE PanicB(b)

-----------------------------------------------------------------------------
(* build(): the layers flattened into one view *)

\* the sources in the order they were added, a later one over an earlier;
\* the only source is config.toml, not required: a missing file adds nothing
CollectSources(srcs, f) ==
    IF srcs = <<>> \/ f.status # "ok" THEN EmptyMap ELSE f.table

\* a build() that layers by the order of the builder calls: the file source,
\* added last, over the overrides
Flatten_CallOrder(b, f) == CollectSources(b.sources, f) @@ b.overrides @@ b.defaults

\* ConfigBuilder::build: the defaults, then the sources over them, then the
\* overrides over both, whatever the order of the builder calls
Flatten(b, f) == b.overrides @@ CollectSources(b.sources, f) @@ b.defaults

\* the file source fails build() when the file is there and is not TOML
BuildFails(b, f) == b.sources # <<>> /\ f.status = "malformed"

Files(bld) ==
    {[status |-> "missing", table |-> EmptyMap],
     [status |-> "malformed", table |-> EmptyMap]}
    \cup {[status |-> "ok", table |-> tb] : tb \in FileTables(bld)}

-----------------------------------------------------------------------------
(* try_deserialize(): the typed coercion of each field *)

\* Url::parse of the texts of the model: the serialization of a URL with an
\* empty path ends in "/"; a text that is no URL gives None
UrlParse(s) ==
    IF Len(s) # 1 THEN None
    ELSE CASE s[1] = "http://localhost:18443" -> Some(<<"http://localhost:18443/">>)
           [] s[1] = "https://localhost:3000" -> Some(<<"https://localhost:3000/">>)
           [] s[1] = "https://payjo.in" -> Some(<<"https://payjo.in/">>)
           [] s[1] = "https://file.example" -> Some(<<"https://file.example/">>)
           [] s[1] \in {"http://localhost:18443/", "https://localhost:3000/",
                        "https://payjo.in/", "https://file.example/",
                        "https://cli.example/"} -> Some(s)
           [] OTHER -> None

\* the outcome of one field: a typed value, or the cause of the failure
FieldOk(v) == [ok |-> TRUE, val |-> v, cause |-> ""]
FieldErr(cause) == [ok |-> FALSE, val |-> TNone, cause |-> cause]

\* Value::into_string
IntoString(v) == IF v.kind = "U64" THEN U64ToString(v.n) ELSE v.s

\* Value::into_uint: a number, or a string that parses as one; -1 is Err
IntoUint(v) ==
    CASE v.kind = "U64" -> v.n
      [] v.kind = "String" -> ParseUnsigned(v.s, IntCap)
      [] OTHER -> -1

DeUrl(present, v) ==
    IF ~present THEN FieldErr("missing")
    ELSE IF v.kind = "Nil" \/ UrlParse(IntoString(v)) = None THEN FieldErr("type")
    ELSE FieldOk(Typed("Url", UrlParse(IntoString(v))[1], 0))

DeString(present, v, ty) ==
    IF ~present THEN FieldErr("missing")
    ELSE IF v.kind = "Nil" THEN FieldErr("type")
    ELSE FieldOk(Typed(ty, IntoString(v), 0))

\* Option<T>: a missing key and a Nil value are None
DeOptionPath(present, v) ==
    IF ~present \/ v.kind = "Nil" THEN FieldOk(TNone)
    ELSE FieldOk(Typed("Path", IntoString(v), 0))

DeU16(present, v) ==
    IF ~present THEN FieldErr("missing")
    ELSE IF IntoUint(v) < 0 \/ IntoUint(v) > U16_MAX THEN FieldErr("type")
    ELSE FieldOk(Typed("u16", <<>>, IntoUint(v)))

\* Option<FeeRate>; FeeRate is a transparent u64 of sat/kwu
DeOptionFeeRate(present, v) ==
    IF ~present \/ v.kind = "Nil" THEN FieldOk(TNone)
    ELSE IF IntoUint(v) < 0 THEN FieldErr("type")
    ELSE FieldOk(Typed("FeeRate", <<>>, IntoUint(v)))

\* std::fs::read and OhttpKeys::decode on the files of Disk
FsReadable(path) == path \in DOMAIN Disk
OhttpDecodes(bytes) == bytes = "bundle"

\* a deserializer that takes an unreadable file for no key bundle
deserialize_ohttp_keys_from_path_SwallowIo(path_str) ==
    IF path_str = None
    THEN [outcome |-> "none", reads |-> 0, decodes |-> 0]
    ELSE IF ~FsReadable(path_str[1])
    THEN [outcome |-> "none", reads |-> 1, decodes |-> 0]
    ELSE IF ~OhttpDecodes(Disk[path_str[1]])
    THEN [outcome |-> "decode", reads |-> 1, decodes |-> 1]
    ELSE [outcome |-> "some", reads |-> 1, decodes |-> 1]

\* the custom deserializer of V2Config.ohttp_keys, on the flattened path:
\* what it returns and the calls it makes
deserialize_ohttp_keys_from_path(path_str) ==
    IF path_str = None
    THEN [outcome |-> "none", reads |-> 0, decodes |-> 0]
    ELSE IF ~FsReadable(path_str[1])
    THEN [outcome |-> "io", reads |-> 1, decodes |-> 0]
    ELSE IF ~OhttpDecodes(Disk[path_str[1]])
    THEN [outcome |-> "decode", reads |-> 1, decodes |-> 1]
    ELSE [outcome |-> "some", reads |-> 1, decodes |-> 1]

\* Option<String>::deserialize of the flattened value
PathOption(v) == IF v.kind = "Nil" THEN None ELSE Some(IntoString(v))

\* a field with deserialize_with and no serde default must be present
DeOhttpKeys(present, v) ==
    IF ~present THEN FieldErr("missing")
    ELSE LET r == deserialize_ohttp_keys_from_path(PathOption(v))
         IN CASE r.outcome = "none" -> FieldOk(TNone)
              [] r.outcome = "some" -> FieldOk(Typed("OhttpKeys", PathOption(v)[1], 0))
              [] OTHER -> FieldErr(r.outcome)

Field(k, fl) ==
    LET present == k \in DOMAIN fl
        v == IF present THEN fl[k] ELSE Nil
    IN CASE k \in {"bitcoind.rpchost", "v1.pj_endpoint", "v2.ohttp_relay",
                   "v2.pj_directory"} -> DeUrl(present, v)
         [] k \in {"bitcoind.rpcuser", "bitcoind.rpcpassword"} ->
                DeString(present, v, "String")
         [] k = "db_path" -> DeString(present, v, "Path")
         [] k = "bitcoind.cookie" -> DeOptionPath(present, v)
         [] k = "max_fee_rate" -> DeOptionFeeRate(present, v)
         [] k = "v1.port" -> DeU16(present, v)
         [] k = "v2.ohttp_keys" -> DeOhttpKeys(present, v)

\* the fields whose coercion fails
FieldErrors(fl, bld) == {k \in Schema(bld) : ~Field(k, fl).ok}

\* the fields deserialized together with k: the struct k belongs to
StructOf(k) ==
    IF k \in V1Keys THEN V1Keys
    ELSE IF k \in V2Keys THEN V2Keys
    ELSE IF k \in {"db_path", "max_fee_rate"} THEN Keys
    ELSE CommonKeys \ {"db_path", "max_fee_rate"}

\* the errors try_deserialize can return: the keys of a table are visited in
\* the map's iteration order, which is not specified, and the first failing
\* one ends the visit; a missing field is found only once its struct's
\* present keys have all been visited without error
Surfaced(fl, bld) ==
    {k \in FieldErrors(fl, bld) :
        k \in DOMAIN fl
        \/ \A j \in FieldErrors(fl, bld) \cap StructOf(k) : j \notin DOMAIN fl}

\* whether the key-bundle deserializer had run when the error at k ended
\* the visit
KeysVisited(k, fl) ==
    IF k = "v2.ohttp_keys" \/ (k \in V2Keys /\ k \notin DOMAIN fl) THEN {TRUE}
    ELSE IF Field("v2.ohttp_keys", fl).ok THEN {TRUE, FALSE}
    ELSE {FALSE}

-----------------------------------------------------------------------------
(* Config::new, step by step *)

\* matches.subcommand(): none, or the name of the subcommand; "other"
\* stands for any name the match has no arm for
Subcommands == {None, Some("send"), Some("receive"), Some("resume"), Some("other")}

Running == [kind |-> "Running", cause |-> "", key |-> ""]

Init ==
    /\ build \in Builds
    /\ subcommand \in Subcommands
    /\ pc = "args"
    /\ fee_arg = None
    /\ matches = EmptyMap
    /\ sub_matches = EmptyMap
    /\ builder = NewBuilder
    /\ file = [status |-> "unread", table |-> EmptyMap]
    /\ flat = EmptyMap
    /\ reads = 0
    /\ decodes = 0
    /\ keys_field = ""
    /\ app_config = EmptyMap
    /\ result = Running

\* Config::new takes the ArgMatches clap has built, and reads max_fee_rate
\* from them as a FeeRate: the text was parsed while the arguments were, and
\* a text that is no fee rate ends the run there, before Config::new
ParseArgs ==
    /\ pc = "args"
    /\ \E a \in (IF subcommand = None THEN {None} ELSE FeeArgs) :
          /\ fee_arg' = a
          /\ IF a # None /\ ~a[1].parsed
             THEN /\ pc' = "done"
                  /\ result' = [kind |-> "ArgError", cause |-> "max_fee_rate",
                                                      key |-> ""]
             ELSE /\ pc' = "bitcoind"
                  /\ result' = result
    /\ UNCHANGED <<build, matches, subcommand, sub_matches, builder, file, flat,
                   reads, decodes, keys_field, app_config>>

AddBitcoindDefaults ==
    /\ pc = "bitcoind"
    /\ \E m \in ArgChoices(BitcoindFlags, MaxFlags - FlagsSupplied) :
          /\ matches' = m @@ matches
          /\ builder' = add_bitcoind_defaults(builder, m @@ matches)
    /\ pc' = "common"
    /\ UNCHANGED <<build, fee_arg, subcommand, sub_matches, file, flat, reads,
                   decodes, keys_field, app_config, result>>

AddCommonDefaults ==
    /\ pc = "common"
    /\ \E m \in ArgChoices(CommonFlags, MaxFlags - FlagsSupplied) :
          /\ matches' = m @@ matches
          /\ builder' = add_common_defaults(builder, m @@ matches)
    /\ pc' = "v1"
    /\ UNCHANGED <<build, fee_arg, subcommand, sub_matches, file, flat, reads,
                   decodes, keys_field, app_config, result>>

\* the block under cfg(feature = "v1")
AddV1Defaults ==
    /\ pc = "v1"
    /\ builder' = IF build.v1 THEN add_v1_defaults(builder) ELSE builder
    /\ pc' = "v2"
    /\ UNCHANGED <<build, fee_arg, matches, subcommand, sub_matches, file, flat,
                   reads, decodes, keys_field, app_config, result>>

\* the block under cfg(feature = "v2")
AddV2Defaults ==
    /\ pc = "v2"
    /\ \E m \in ArgChoices(IF build.v2 THEN V2Flags ELSE {}, MaxFlags - FlagsSupplied) :
          /\ matches' = m @@ matches
          /\ builder' = IF build.v2 THEN add_v2_defaults(builder, m @@ matches)
                        ELSE builder
    /\ pc' = "subcommands"
    /\ UNCHANGED <<build, fee_arg, subcommand, sub_matches, file, flat, reads,
                   decodes, keys_field, app_config, result>>

\* the arguments of the invoked subcommand, max_fee_rate as it was parsed;
\* without a subcommand there are none
SubMatchChoices ==
    IF subcommand = None THEN {EmptyMap}
    ELSE {m @@ (IF fee_arg = None THEN EmptyMap
                ELSE "max_fee_rate" :> Typed("FeeRate", <<>>, fee_arg[1].rate)) :
          m \in ArgChoices(SubFlags(build) \ {"max_fee_rate"}, MaxFlags - FlagsSupplied)}

HandleSubcommands ==
    /\ pc = "subcommands"
    /\ \E sm \in SubMatchChoices :
          LET r == handle_subcommands(builder, subcommand, sm, build)
          IN /\ sub_matches' = sm
             /\ builder' = r.builder
             /\ IF r.kind = "Ok"
                THEN pc' = "add_source" /\ result' = result
                ELSE /\ pc' = "done"
                     /\ result' = [kind |-> r.kind, cause |-> r.cause, key |-> ""]
    /\ UNCHANGED <<build, fee_arg, matches, subcommand, file, flat, reads,
                   decodes, keys_field, app_config>>

AddSource ==
    /\ pc = "add_source"
    /\ builder' = add_source(builder, "config.toml")
    /\ pc' = "build"
    /\ UNCHANGED <<build, fee_arg, matches, subcommand, sub_matches, file, flat,
                   reads, decodes, keys_field, app_config, result>>

\* builder.build()?: config.toml is read here
Build ==
    /\ pc = "build"
    /\ \E f \in Files(build) :
          /\ file' = f
          /\ IF BuildFails(builder, f)
             THEN /\ flat' = flat
                  /\ pc' = "done"
                  /\ result' = [kind |-> "Err", cause |-> "file", key |-> ""]
             ELSE /\ flat' = Flatten(builder, f)
                  /\ pc' = "deserialize"
                  /\ result' = result
    /\ UNCHANGED <<build, fee_arg, matches, subcommand, sub_matches, builder,
                   reads, decodes, keys_field, app_config>>

\* config.try_deserialize()?, then Ok(app_config)
TryDeserialize ==
    /\ pc = "deserialize"
    /\ pc' = "done"
    /\ LET keys == deserialize_ohttp_keys_from_path(PathOption(flat["v2.ohttp_keys"]))
           Ran(ran) ==
               IF build.v2 /\ ran
               THEN /\ keys_field' = keys.outcome
                    /\ reads' = reads + keys.reads
                    /\ decodes' = decodes + keys.decodes
               ELSE UNCHANGED <<keys_field, reads, decodes>>
       IN IF FieldErrors(flat, build) = {}
          THEN /\ app_config' = [k \in Schema(build) |-> Field(k, flat).val]
               /\ result' = [kind |-> "Ok", cause |-> "", key |-> ""]
               /\ Ran(TRUE)
          ELSE /\ app_config' = app_config
               /\ \E k \in Surfaced(flat, build) :
                     /\ result' = [kind |-> "Err", cause |-> Field(k, flat).cause,
                                                   key |-> k]
                     /\ \E ran \in KeysVisited(k, flat) : Ran(ran)
    /\ UNCHANGED <<build, fee_arg, matches, subcommand, sub_matches, builder,
                   file, flat>>

Next ==
    \/ ParseArgs
    \/ AddBitcoindDefaults
    \/ AddCommonDefaults
    \/ AddV1Defaults
    \/ AddV2Defaults
    \/ HandleSubcommands
    \/ AddSource
    \/ Build
    \/ TryDeserialize

Spec == Init /\ [][Next]_vars

-----------------------------------------------------------------------------
(* What the layers hold, read off the inputs *)

V1Only == [v1 |-> TRUE, v2 |-> FALSE]

Done == pc = "done"
Resolved == pc = "done" /\ result.kind = "Ok"

\* the key a flag sets
KeyOfFlag(f) ==
    CASE f = "rpchost" -> "bitcoind.rpchost"
      [] f = "cookie_file" -> "bitcoind.cookie"
      [] f = "rpcuser" -> "bitcoind.rpcuser"
      [] f = "rpcpassword" -> "bitcoind.rpcpassword"
      [] f = "db_path" -> "db_path"
      [] f = "ohttp_relay" -> "v2.ohttp_relay"
      [] f = "max_fee_rate" -> "max_fee_rate"
      [] f = "port" -> "v1.port"
      [] f = "pj_endpoint" -> "v1.pj_endpoint"
      [] f = "pj_directory" -> "v2.pj_directory"
      [] f = "ohttp_keys" -> "v2.ohttp_keys"

BaseFlags == BitcoindFlags \cup CommonFlags \cup V2Flags

\* the flags of the invocation that set k: a top-level flag, or a flag of
\* the subcommand
FlagsFor(k) ==
    {f \in DOMAIN matches : KeyOfFlag(f) = k}
    \cup {f \in DOMAIN sub_matches : KeyOfFlag(f) = k}

\* the CLI layer defines k: a top-level flag, or a flag of `receive`
CliDefines(k) ==
    \/ \E f \in DOMAIN matches : KeyOfFlag(f) = k
    \/ subcommand = Some("receive") /\ \E f \in DOMAIN sub_matches : KeyOfFlag(f) = k

CliArg(k) ==
    IF \E f \in DOMAIN matches : KeyOfFlag(f) = k
    THEN matches[CHOOSE f \in DOMAIN matches : KeyOfFlag(f) = k]
    ELSE sub_matches[CHOOSE f \in DOMAIN sub_matches : KeyOfFlag(f) = k]

\* the numbers the port texts of the model denote; -1 for a text that is
\* no number in 0..65535
PortDenoted(s) ==
    CASE s = <<"5", "0", "0", "0">> -> 5000
      [] s = <<"6", "5", "5", "3", "5">> -> 65535
      [] s = <<"+", "8", "0">> -> 80
      [] OTHER -> -1

\* the value of the CLI layer for k, as the field's type
CliTyped(k) ==
    LET a == CliArg(k)
    IN CASE k \in {"db_path", "bitcoind.cookie"} -> Typed("Path", a.s, 0)
         [] k = "v1.port" -> Typed("u16", <<>>, PortDenoted(a.s))
         [] k = "v2.ohttp_keys" -> Typed("OhttpKeys", a.s, 0)
         [] OTHER -> a

FileDefines(k) == file.status = "ok" /\ k \in DOMAIN file.table

\* the compiled-in defaults, as the fields' types
DefaultTyped(k) ==
    CASE k = "bitcoind.rpchost" -> Typed("Url", <<"http://localhost:18443/">>, 0)
      [] k = "bitcoind.rpcuser" -> Typed("String", <<"bitcoin">>, 0)
      [] k = "bitcoind.rpcpassword" -> Typed("String", <<>>, 0)
      [] k = "db_path" -> Typed("Path", DB_PATH, 0)
      [] k = "v1.port" -> Typed("u16", <<>>, 3000)
      [] k = "v1.pj_endpoint" -> Typed("Url", <<"https://localhost:3000/">>, 0)
      [] k = "v2.pj_directory" -> Typed("Url", <<"https://payjo.in/">>, 0)
      [] OTHER -> TNone

\* the value of the file layer or, below it, of the defaults
FileOrDefault(k) ==
    IF FileDefines(k) THEN Field(k, file.table).val ELSE DefaultTyped(k)

(***************************************************************************)
(* C1: in every resolved Config, each key holds the value of the highest   *)
(* layer that defines it, default < config.toml < CLI flag (a top-level    *)
(* flag or a flag of `receive`), although the file source is added to the  *)
(* builder last.  In a v1 build under `receive`, file port 4000 resolves   *)
(* to 4000 without --port and to 5000 with --port 5000.                    *)
(***************************************************************************)
C1_Precedence ==
    Resolved =>
        /\ \A k \in Schema(build) :
              app_config[k] = IF CliDefines(k) THEN CliTyped(k) ELSE FileOrDefault(k)
        /\ ( /\ build = V1Only
             /\ subcommand = Some("receive")
             /\ FileDefines("v1.port")
             /\ file.table["v1.port"] = U64(4000) )
            => app_config["v1.port"].n =
                  IF "port" \notin DOMAIN sub_matches THEN 4000
                  ELSE IF sub_matches["port"].s = <<"5", "0", "0", "0">> THEN 5000
                  ELSE app_config["v1.port"].n

\* file port 4000 and --port 5000 under `receive` in a v1 build: 5000
C1_Witness ==
    /\ Resolved
    /\ build = V1Only
    /\ subcommand = Some("receive")
    /\ FileDefines("v1.port")
    /\ file.table["v1.port"] = U64(4000)
    /\ "port" \in DOMAIN sub_matches
    /\ sub_matches["port"].s = <<"5", "0", "0", "0">>
    /\ app_config["v1.port"].n = 5000

(***************************************************************************)
(* C2: a flag that is not supplied contributes nothing: once the override  *)
(* steps have run, a key none of whose flags was supplied has no override, *)
(* and in every resolved Config it holds the file's value if config.toml   *)
(* defines it and the compiled-in default otherwise.                       *)
(***************************************************************************)
C2_AbsentFlagNoOverride ==
    \A k \in Schema(build) :
        (pc \in {"add_source", "build", "deserialize", "done"} /\ FlagsFor(k) = {})
        => /\ k \notin DOMAIN builder.overrides
           /\ Resolved => app_config[k] = FileOrDefault(k)

\* the file sets the RPC user, no --rpcuser is given, and the file's value
\* is the resolved one
C2_Witness ==
    /\ Resolved
    /\ FlagsFor("bitcoind.rpcuser") = {}
    /\ DOMAIN matches # {}
    /\ FileDefines("bitcoind.rpcuser")
    /\ app_config["bitcoind.rpcuser"] = Typed("String", <<"file-value">>, 0)

(***************************************************************************)
(* C3: every resolved Config holds exactly one of the two variant          *)
(* sub-structures, v1 or v2, under every build.                            *)
(***************************************************************************)
HasV1 == V1Keys \subseteq DOMAIN app_config
HasV2 == V2Keys \subseteq DOMAIN app_config

C3_ExactlyOneVariant == Resolved => (HasV1 /\ ~HasV2) \/ (HasV2 /\ ~HasV1)

(***************************************************************************)
(* C4: in a v2 build the key-bundle field has three outcomes, decided by   *)
(* the flattened path.  No path: the field is absent and no file is read.  *)
(* A path that cannot be read: Config::new fails, the field's error wraps  *)
(* the I/O failure, nothing is decoded.  A file that is no bundle:         *)
(* Config::new fails, the field's error wraps the decode failure.  Only a  *)
(* readable, decodable file gives a present key bundle.                    *)
(***************************************************************************)
FlatKeysPath == IF flat["v2.ohttp_keys"].kind = "Nil" THEN None
                ELSE Some(flat["v2.ohttp_keys"].s)

C4_KeyBundleOutcomes ==
    (Done /\ build.v2 /\ file.status \in {"ok", "missing"}) =>
        /\ FlatKeysPath = None =>
              /\ reads = 0 /\ decodes = 0
              /\ keys_field \in {"", "none"}
              /\ result.key # "v2.ohttp_keys"
              /\ Resolved => app_config["v2.ohttp_keys"] = TNone
        /\ FlatKeysPath = Some(<<"missing.keys">>) =>
              /\ result.kind = "Err"
              /\ decodes = 0
              /\ keys_field \in {"", "io"}
              /\ result.key = "v2.ohttp_keys" => result.cause = "io" /\ reads = 1
        /\ FlatKeysPath = Some(<<"garbage.keys">>) =>
              /\ result.kind = "Err"
              /\ keys_field \in {"", "decode"}
              /\ result.key = "v2.ohttp_keys" =>
                    result.cause = "decode" /\ reads = 1 /\ decodes = 1
        /\ (Resolved /\ app_config["v2.ohttp_keys"] # TNone) =>
              /\ FlatKeysPath = Some(<<"valid.keys">>)
              /\ app_config["v2.ohttp_keys"] = Typed("OhttpKeys", <<"valid.keys">>, 0)
              /\ keys_field = "some" /\ reads = 1 /\ decodes = 1

\* a path to a file that is not there: the I/O error, and no decode
C4_Witness ==
    /\ Done /\ build.v2
    /\ file.status \in {"ok", "missing"}
    /\ FlatKeysPath = Some(<<"missing.keys">>)
    /\ result = [kind |-> "Err", cause |-> "io", key |-> "v2.ohttp_keys"]
    /\ reads = 1 /\ decodes = 0

(***************************************************************************)
(* C5: `send`, and `resume` in a v2 build, add no override to the base     *)
(* layers: the builder, the flattened view and the resolved Config are     *)
(* those of the defaults, config.toml and the top-level flags alone, and   *)
(* the fee-rate ceiling, port, advertised endpoint, directory URL and      *)
(* key-bundle path are never taken from the subcommand's arguments.        *)
(***************************************************************************)
NoOverrideSubcommand ==
    subcommand = Some("send") \/ (build.v2 /\ subcommand = Some("resume"))

SubcommandKeys == {"max_fee_rate", "v1.port", "v1.pj_endpoint", "v2.pj_directory",
                   "v2.ohttp_keys"}

\* the builder of the base layers alone
BaseBuilder ==
    LET b1 == add_common_defaults(add_bitcoind_defaults(NewBuilder, matches), matches)
        b2 == IF build.v1 THEN add_v1_defaults(b1) ELSE b1
    IN IF build.v2 THEN add_v2_defaults(b2, matches) ELSE b2

C5_SendResumeNoOverrides ==
    (NoOverrideSubcommand /\ pc \in {"add_source", "build", "deserialize", "done"}
     /\ result.kind # "ArgError") =>
        /\ result.kind # "Panic"
        /\ builder.defaults = BaseBuilder.defaults
        /\ builder.overrides = BaseBuilder.overrides
        /\ SubcommandKeys \cap DOMAIN builder.overrides = {}
        /\ file.status \in {"ok", "missing"} =>
              flat = Flatten(add_source(BaseBuilder, "config.toml"), file)
        /\ Resolved => \A k \in SubcommandKeys \cap Schema(build) :
                           app_config[k] = FileOrDefault(k)

\* `send` given --port 5000 while the file sets port 4000: 4000
C5_Witness ==
    /\ Resolved
    /\ subcommand = Some("send")
    /\ "port" \in DOMAIN sub_matches
    /\ sub_matches["port"].s = <<"5", "0", "0", "0">>
    /\ FileDefines("v1.port")
    /\ app_config["v1.port"] = Typed("u16", <<>>, 4000)

(***************************************************************************)
(* C6: without the v2 feature, a --port given to `receive` must parse as   *)
(* a u16: a text that is no number in 0..65535 makes Config::new return a  *)
(* ConfigError, not panic, and no Config is produced; a text that is one   *)
(* becomes the port of every Config resolved.                              *)
(***************************************************************************)
C6_PortParse ==
    (~build.v2 /\ subcommand = Some("receive") /\ "port" \in DOMAIN sub_matches) =>
        IF PortDenoted(sub_matches["port"].s) < 0
        THEN /\ Done
             /\ result = [kind |-> "Err", cause |-> "port", key |-> ""]
             /\ app_config = EmptyMap
             /\ file.status = "unread"
        ELSE /\ result.kind \in {"Running", "Ok", "Err"}
             /\ result.cause # "port"
             /\ result.key # "v1.port"
             /\ builder.overrides["v1.port"] = U64(PortDenoted(sub_matches["port"].s))
             /\ (Resolved /\ build.v1) =>
                   app_config["v1.port"] =
                       Typed("u16", <<>>, PortDenoted(sub_matches["port"].s))

\* --port 65536 is out of range: a ConfigError
C6_Witness ==
    /\ build = V1Only
    /\ subcommand = Some("receive")
    /\ "port" \in DOMAIN sub_matches
    /\ sub_matches["port"].s = <<"6", "5", "5", "3", "6">>
    /\ result = [kind |-> "Err", cause |-> "port", key |-> ""]

(***************************************************************************)
(* C7, as claimed: `receive` with a fee-rate text that does not parse      *)
(* yields a ConfigError from Config::new and no Config; a fee rate that    *)
(* parses becomes the resolved max_fee_rate over any file value.           *)
(***************************************************************************)
BadFeeText == fee_arg # None /\ ~fee_arg[1].parsed
GoodFee == fee_arg # None /\ fee_arg[1].parsed

C7_Original ==
    /\ (Done /\ subcommand = Some("receive") /\ BadFeeText) =>
          result.kind = "Err" /\ app_config = EmptyMap
    /\ (Resolved /\ subcommand = Some("receive") /\ GoodFee) =>
          app_config["max_fee_rate"] = Typed("FeeRate", <<>>, fee_arg[1].rate)

(***************************************************************************)
(* C7, amended: Config::new parses no fee-rate text: `receive` reads       *)
(* max_fee_rate from the ArgMatches as a FeeRate.  A text that does not    *)
(* parse is refused while the arguments are parsed: Config::new never      *)
(* runs, returns no ConfigError and produces no Config.  A fee rate that   *)
(* parsed is the override, is never the failing field, and is the          *)
(* max_fee_rate of every resolved Config, over any file value.             *)
(***************************************************************************)
C7_FeeRateOverride ==
    /\ BadFeeText =>
          /\ Done
          /\ result.kind = "ArgError"
          /\ builder = NewBuilder
          /\ app_config = EmptyMap
    /\ (subcommand = Some("receive") /\ GoodFee
        /\ pc \in {"add_source", "build", "deserialize", "done"}) =>
          /\ result.key # "max_fee_rate"
          /\ Resolved =>
                app_config["max_fee_rate"] = Typed("FeeRate", <<>>, fee_arg[1].rate)

\* the file sets a fee rate, `receive` is given another: the flag's
C7_Witness ==
    /\ Resolved
    /\ subcommand = Some("receive")
    /\ GoodFee
    /\ FileDefines("max_fee_rate")
    /\ app_config["max_fee_rate"] = Typed("FeeRate", <<>>, 250)

(***************************************************************************)
(* C8: a key that no layer defines fails Config::new only if its field is  *)
(* not optional.  The optional fields (cookie path, maximum fee rate, key  *)
(* bundle) resolve to absent when no layer gives them a value, without     *)
(* error.  In a v2 build the relay URL has no compiled-in default, and the *)
(* flattened view without it makes Config::new fail with a ConfigError;    *)
(* every other field that is not optional has a default, so a missing      *)
(* field is never reported for it.                                         *)
(***************************************************************************)
OptionalKeys == {"bitcoind.cookie", "max_fee_rate", "v2.ohttp_keys"}

\* no layer gives k a value
Undefined(k) == k \notin DOMAIN flat \/ flat[k] = Nil

Deserialized == Done /\ file.status \in {"ok", "missing"}

C8_AbsentKeys ==
    Deserialized =>
        /\ \A k \in OptionalKeys \cap Schema(build) :
              Undefined(k) => /\ result.key # k
                              /\ Resolved => app_config[k] = TNone
        /\ (build.v2 /\ Undefined("v2.ohttp_relay")) =>
              /\ result.kind = "Err"
              /\ FieldErrors(flat, build) = {"v2.ohttp_relay"} =>
                    result = [kind |-> "Err", cause |-> "missing",
                                              key |-> "v2.ohttp_relay"]
        /\ result.cause = "missing" =>
              /\ result.key = "v2.ohttp_relay"
              /\ build.v2
              /\ ~CliDefines("v2.ohttp_relay") /\ ~FileDefines("v2.ohttp_relay")
        /\ \A k \in Schema(build) \ (OptionalKeys \cup {"v2.ohttp_relay"}) :
              ~Undefined(k) /\ k \in DOMAIN builder.defaults

\* a v2 build in which neither the file nor --ohttp-relay gives the relay
C8_Witness ==
    /\ Done
    /\ build.v2
    /\ file.status = "ok"
    /\ result = [kind |-> "Err", cause |-> "missing", key |-> "v2.ohttp_relay"]

(***************************************************************************)
(* C9: Config::new never panics on what the user supplies: the             *)
(* unreachable!() arm of handle_subcommands is reached only for a          *)
(* subcommand name outside {send, receive, resume}, not for a subcommand   *)
(* of the set, for no subcommand, or for `resume` in a build without v2.   *)
(***************************************************************************)
C9_NoPanicOnUserInput ==
    result.kind = "Panic" =>
        subcommand \notin {None, Some("send"), Some("receive"), Some("resume")}

(***************************************************************************)
(* C10: in a v2 build the --ohttp-relay override is applied whatever the   *)
(* subcommand: once add_v2_defaults has run the relay flag is the override,*)
(* and under send, receive and resume it is the relay of every resolved    *)
(* Config, over the file's value; the directory URL and key-bundle path    *)
(* flags are overrides under `receive` only.                               *)
(***************************************************************************)
C10_RelayUnconditional ==
    (build.v2 /\ pc \in {"add_source", "build", "deserialize", "done"}
     /\ result.kind # "ArgError") =>
        /\ "ohttp_relay" \in DOMAIN matches =>
              /\ "v2.ohttp_relay" \in DOMAIN builder.overrides
              /\ builder.overrides["v2.ohttp_relay"] = Str(matches["ohttp_relay"].s)
              /\ (Resolved /\ subcommand \in {Some("send"), Some("receive"),
                                                Some("resume")}) =>
                    app_config["v2.ohttp_relay"] = matches["ohttp_relay"]
        /\ \A f \in {"pj_directory", "ohttp_keys"} \cap DOMAIN sub_matches :
              /\ KeyOfFlag(f) \in DOMAIN builder.overrides
                    <=> subcommand = Some("receive")
              /\ (Resolved /\ subcommand # Some("receive")) =>
                    app_config[KeyOfFlag(f)] = FileOrDefault(KeyOfFlag(f))

\* `send` in a v2 build: --ohttp-relay wins over the relay of the file
C10_Witness ==
    /\ Resolved
    /\ build.v2
    /\ subcommand = Some("send")
    /\ "ohttp_relay" \in DOMAIN matches
    /\ FileDefines("v2.ohttp_relay")
    /\ file.table["v2.ohttp_relay"] = Str(<<"https://file.example">>)
    /\ app_config["v2.ohttp_relay"] = CliUrl

====
